---- MODULE Spec2Model ----
(***************************************************************************)
(* DYMO Label Web Editor (js/app.js): the label state, the generated form, *)
(* the debounced synchronisation of the form into the label, preview and   *)
(* print.  Strings are sequences of one-character strings so that          *)
(* toUpperCase, startsWith, endsWith, localeCompare, parseInt and          *)
(* escapeHtml are computed character by character, as the code does.       *)
(***************************************************************************)
EXTENDS Integers, Sequences, FiniteSets, TLC

VARIABLES
    state,        \* the `state` object of app.js (lines 7-15)
    elements,     \* the DOM elements of app.js (lines 18-34) and what they show
    timers,       \* pending setTimeout callbacks of the debounce closures, oldest first
    statusTimers, \* pending setTimeout callbacks of printLabels (line 419)
    reads,        \* FileReader reads in flight (line 160)
    renders,      \* what the renderAsync calls in flight (line 339) will draw
    initPc,       \* position of the async function init
    hist,         \* history: the user events and the labels opened so far, the last full load
    last          \* history: what the most recent handler did

vars == <<state, elements, timers, statusTimers, reads, renders, initPc, hist, last>>

-----------------------------------------------------------------------------
(* Bounds of the model *)

MaxEvents == 3
MaxNames == 3
TickStep == 150

(* Program constants *)

Wait == 300
StatusWait == 3000

-----------------------------------------------------------------------------
(* Strings *)

Lower == <<"a","b","c","d","e","f","g","h","i","j","k","l","m",
           "n","o","p","q","r","s","t","u","v","w","x","y","z">>
Upper == <<"A","B","C","D","E","F","G","H","I","J","K","L","M",
           "N","O","P","Q","R","S","T","U","V","W","X","Y","Z">>
Digits == <<"0","1","2","3","4","5","6","7","8","9">>

IndexIn(c, s) == IF \E i \in 1..Len(s) : s[i] = c
                 THEN CHOOSE i \in 1..Len(s) : s[i] = c
                 ELSE 0

Range(s) == {s[i] : i \in 1..Len(s)}

toUpperCase(s) ==
    [i \in 1..Len(s) |-> IF IndexIn(s[i], Lower) > 0 THEN Upper[IndexIn(s[i], Lower)] ELSE s[i]]

toLowerCase(s) ==
    [i \in 1..Len(s) |-> IF IndexIn(s[i], Upper) > 0 THEN Lower[IndexIn(s[i], Upper)] ELSE s[i]]

startsWith(s, p) == Len(s) >= Len(p) /\ SubSeq(s, 1, Len(p)) = p

endsWith(s, p) == Len(s) >= Len(p) /\ SubSeq(s, Len(s) - Len(p) + 1, Len(s)) = p

includes(s, p) == \E i \in 1..(Len(s) + 1) : startsWith(SubSeq(s, i, Len(s)), p)

(* String.prototype.localeCompare in the default locale: the letters are   *)
(* compared regardless of case first (other characters before digits,      *)
(* digits before letters, a prefix before its extensions); strings that    *)
(* differ only by case are ordered by their first such difference, the     *)
(* lower-case letter first.                                                *)
PrimaryWeight(c) ==
    IF IndexIn(c, Lower) > 0 THEN 100 + IndexIn(c, Lower)
    ELSE IF IndexIn(c, Upper) > 0 THEN 100 + IndexIn(c, Upper)
    ELSE IF IndexIn(c, Digits) > 0 THEN 50 + IndexIn(c, Digits)
    ELSE 0

TertiaryWeight(c) == IF IndexIn(c, Upper) > 0 THEN 1 ELSE 0

RECURSIVE CompareBy(_, _, _, _)
CompareBy(a, b, i, upper) ==
    LET wa == IF upper THEN TertiaryWeight(a[i]) ELSE PrimaryWeight(a[i])
        wb == IF upper THEN TertiaryWeight(b[i]) ELSE PrimaryWeight(b[i])
    IN  IF i > Len(a) /\ i > Len(b) THEN 0
        ELSE IF i > Len(a) THEN -1
        ELSE IF i > Len(b) THEN 1
        ELSE IF wa < wb THEN -1
        ELSE IF wa > wb THEN 1
        ELSE CompareBy(a, b, i + 1, upper)

localeCompare(a, b) ==
    IF CompareBy(a, b, 1, FALSE) # 0 THEN CompareBy(a, b, 1, FALSE)
    ELSE CompareBy(a, b, 1, TRUE)

(* Array.prototype.sort with the comparator localeCompare: a stable sort,  *)
(* computed here by insertion.                                             *)
RECURSIVE Insert(_, _)
Insert(sorted, x) ==
    IF sorted = <<>> THEN <<x>>
    ELSE IF localeCompare(x, Head(sorted)) < 0 THEN <<x>> \o sorted
    ELSE <<Head(sorted)>> \o Insert(Tail(sorted), x)

(* The list left as it came *)
Sort_skipped(s) == s

RECURSIVE Sort(_)
Sort(s) == IF s = <<>> THEN <<>> ELSE Insert(Sort(SubSeq(s, 1, Len(s) - 1)), s[Len(s)])

(* parseInt(text, 10): leading white space is skipped, then an optional     *)
(* sign, then the longest run of digits; NaN when there is no digit.        *)
NaN == [isNaN |-> TRUE, value |-> 0]

Number(n) == [isNaN |-> FALSE, value |-> n]

RECURSIVE SkipSpace(_)
SkipSpace(s) == IF s # <<>> /\ Head(s) \in {" ", "\t", "\n"} THEN SkipSpace(Tail(s)) ELSE s

RECURSIVE DigitsValue(_, _)
DigitsValue(s, acc) ==
    IF s # <<>> /\ IndexIn(Head(s), Digits) > 0
    THEN DigitsValue(Tail(s), 10 * acc + IndexIn(Head(s), Digits) - 1)
    ELSE acc

parseInt(text) ==
    LET t == SkipSpace(text)
        neg == t # <<>> /\ Head(t) = "-"
        body == IF t # <<>> /\ Head(t) \in {"-", "+"} THEN Tail(t) ELSE t
    IN  IF body = <<>> \/ IndexIn(Head(body), Digits) = 0 THEN NaN
        ELSE IF neg THEN Number(0 - DigitsValue(body, 0)) ELSE Number(DigitsValue(body, 0))

(* escapeHtml: the text as the innerHTML of an element holding it. *)
RECURSIVE escapeHtml(_)
escapeHtml(text) ==
    IF text = <<>> THEN <<>>
    ELSE (CASE Head(text) = "&" -> <<"&","a","m","p",";">>
            [] Head(text) = "<" -> <<"&","l","t",";">>
            [] Head(text) = ">" -> <<"&","g","t",";">>
            [] OTHER -> <<Head(text)>>) \o escapeHtml(Tail(text))

(* The value of a <textarea> parsed from markup: character references are  *)
(* decoded and one newline right after the start tag is dropped.           *)
RECURSIVE DecodeRefs(_)
DecodeRefs(s) ==
    IF s = <<>> THEN <<>>
    ELSE IF startsWith(s, <<"&","a","m","p",";">>) THEN <<"&">> \o DecodeRefs(SubSeq(s, 6, Len(s)))
    ELSE IF startsWith(s, <<"&","l","t",";">>) THEN <<"<">> \o DecodeRefs(SubSeq(s, 5, Len(s)))
    ELSE IF startsWith(s, <<"&","g","t",";">>) THEN <<">">> \o DecodeRefs(SubSeq(s, 5, Len(s)))
    ELSE <<Head(s)>> \o DecodeRefs(Tail(s))

TextareaValue(markup) ==
    LET body == IF markup # <<>> /\ Head(markup) = "\n" THEN Tail(markup) ELSE markup
    IN  DecodeRefs(body)

-----------------------------------------------------------------------------
(* Names, tags and values that occur in the label files of the model *)

nName == <<"N","a","m","e">>
nAddress == <<"A","d","d","r","e","s","s">>
nIgnoreId == <<"i","g","n","o","r","e","I","d">>
nLogo == <<"L","o","g","o">>
nLower == <<"a","d","d","r","e","s","s">>
nUpper == <<"I","G","N","O","R","E","D">>

tText == <<"T","e","x","t","O","b","j","e","c","t">>
tAddress == <<"A","d","d","r","e","s","s","O","b","j","e","c","t">>
tImage == <<"I","m","a","g","e","O","b","j","e","c","t">>
tInfo == <<"O","b","j","e","c","t","I","n","f","o">>

vEmpty == <<>>
vOrig == <<"A","B","C","1","2","3">>
vX == <<"x">>
vY == <<"y">>

EditValues == {vEmpty, vX, vY}

QuantityInputs == {<<"0">>, <<"a","b","c">>, <<"2">>, <<"3","x">>, <<"-","1">>, <<>>}

(* A label file as the program meets it: its name, its markup as the list  *)
(* of its elements in document order (each with the texts of its "Name"    *)
(* descendants, in document order), and what the framework does with it:   *)
(* whether openLabelXml and getObjectNames raise, the names it reports,    *)
(* each object's text, and the objects whose text it cannot get or set.    *)
File(fname, xml, names, text, getFail, setOk, openRaises, namesRaises) ==
    [fname |-> fname, xml |-> xml, names |-> names, text |-> text,
     getFail |-> getFail, setOk |-> setOk,
     openRaises |-> openRaises, namesRaises |-> namesRaises]

Element(tag, names) == [tagName |-> tag, names |-> names]

xmlAddress == <<Element(tInfo, <<nName>>), Element(tText, <<nName>>),
                Element(tText, <<nIgnoreId>>), Element(tAddress, <<nAddress>>)>>
xmlLogo == <<Element(tImage, <<nLogo>>), Element(tText, <<nName>>)>>
xmlBlank == <<Element(tImage, <<nLogo>>), Element(tText, <<>>)>>

txtAddress == (nName :> vEmpty) @@ (nIgnoreId :> vX) @@ (nAddress :> vEmpty)
txtLogo == (nLogo :> vOrig) @@ (nName :> vEmpty)
txtBlank == (nLogo :> vEmpty) @@ (nName :> vEmpty)

fnLabel == <<"a",".","l","a","b","e","l">>
fnDymo == <<"b",".","D","Y","M","O">>
fnText == <<"c",".","t","x","t">>

NoFile == File(<<>>, <<>>, <<>>, <<>>, {}, {}, FALSE, FALSE)

FAddress == File(fnLabel, xmlAddress, <<nName, nIgnoreId, nAddress>>, txtAddress,
                 {}, {nName, nIgnoreId, nAddress}, FALSE, FALSE)
FLogo == File(fnDymo, xmlLogo, <<nLogo, nName>>, txtLogo, {}, {nLogo, nName}, FALSE, FALSE)
FLogoFixed == File(fnDymo, xmlLogo, <<nLogo, nName>>, txtLogo, {}, {nName}, FALSE, FALSE)
FBlank == File(fnLabel, xmlBlank, <<nLogo, nName>>, txtBlank, {nName}, {nLogo}, FALSE, FALSE)
FNoFields == File(fnDymo, <<>>, <<>>, <<>>, {}, {nName}, FALSE, FALSE)
FNotLabel == File(fnText, xmlLogo, <<nLogo, nName>>, txtLogo, {}, {nLogo, nName}, FALSE, FALSE)
FBadMarkup == File(fnLabel, <<>>, <<>>, <<>>, {}, {}, TRUE, FALSE)
FBadNames == File(fnLabel, xmlLogo, <<nLogo, nName>>, txtLogo, {}, {nLogo, nName}, FALSE, TRUE)

Files == {FAddress, FLogo, FLogoFixed, FBlank, FNoFields, FNotLabel, FBadMarkup, FBadNames}

(* The lists of names generateForm is applied to on its own *)
NameUniverse == {nName, nAddress, nIgnoreId, nLower, nUpper}

RECURSIVE ListsUpTo(_)
ListsUpTo(n) ==
    IF n = 0 THEN {<<>>}
    ELSE ListsUpTo(n - 1) \cup {Append(l, x) : l \in {m \in ListsUpTo(n - 1) : Len(m) = n - 1},
                                               x \in NameUniverse}

(* The lists of names, and the markups, for the shapes of the controls *)
tGraphic == <<"G","r","a","p","h","i","c","O","b","j","e","c","t">>

xmlGraphic == <<Element(tGraphic, <<nLogo>>), Element(tInfo, <<nName>>),
                Element(tText, <<nAddress>>)>>

KindUniverse == {nName, nLogo, nIgnoreId, nAddress}

RECURSIVE ListsOver(_, _)
ListsOver(U, n) ==
    IF n = 0 THEN {<<>>}
    ELSE ListsOver(U, n - 1) \cup {Append(l, x) : l \in {m \in ListsOver(U, n - 1) : Len(m) = n - 1},
                                                  x \in U}

KindFiles ==
    {File(fnLabel, x, l, [n \in Range(l) |-> vEmpty], {}, Range(l), FALSE, FALSE) :
        l \in ListsOver(KindUniverse, MaxNames), x \in {xmlLogo, xmlGraphic, <<>>}}

(* The labels whose opening is looked at on its own: texts with markup     *)
(* characters and with a newline in front, objects whose text cannot be    *)
(* read, labels that refuse every write.                                   *)
vLine == <<"\n","x">>
vAmp == <<"&","<",">">>

OpenFiles ==
    {File(fnLabel, xmlLogo, <<nLogo, nName>>, (nLogo :> lv) @@ (nName :> nv), gf, so,
          FALSE, FALSE) :
        lv \in {vEmpty, vOrig}, nv \in {vEmpty, vX, vLine, vAmp},
        gf \in SUBSET {nLogo, nName}, so \in {{}, {nLogo, nName}}}

(* The markups parseObjectTypes is applied to: up to MaxNames elements; a   *)
(* parsererror element is what DOMParser puts in the document of a markup  *)
(* that is not well-formed, alone or with what it had parsed.              *)
tParserError == <<"p","a","r","s","e","r","e","r","r","o","r">>

TypeElements ==
    {Element(t, ns) : t \in {tText, tImage, tInfo}, ns \in {<<>>, <<nName>>, <<nLogo, nName>>}}
        \cup {Element(tParserError, <<>>)}

TypeFiles ==
    {File(fnLabel, x, <<nLogo, nName>>, txtLogo, {}, {nLogo, nName}, FALSE, FALSE) :
        x \in ListsOver(TypeElements, MaxNames)}

FormFiles ==
    {File(fnLabel, [i \in 1..Len(l) |-> Element(tText, <<l[i]>>)], l,
          [n \in Range(l) |-> vEmpty], {}, Range(l), FALSE, FALSE) : l \in ListsUpTo(MaxNames)}

-----------------------------------------------------------------------------
(* The framework's label object (state.label), and null *)

Null == [gen |-> 0, text |-> <<>>, opened |-> <<>>, getFail |-> {}, setOk |-> {}]

(* dymo.label.framework.openLabelXml(xml), for the file's markup: the      *)
(* label of the gen-th load, holding each object's text.                   *)
openLabelXml(f, gen) ==
    [gen |-> gen, text |-> f.text, opened |-> f.text, getFail |-> f.getFail, setOk |-> f.setOk]

(* label.getObjectText(name): the text, or raised *)
getObjectText(label, name) ==
    IF name \in DOMAIN label.text /\ name \notin label.getFail
    THEN [raised |-> FALSE, text |-> label.text[name]]
    ELSE [raised |-> TRUE, text |-> <<>>]

(* label.setObjectText(name, value): the label afterwards, or raised *)
setObjectText(label, name, value) ==
    IF name \in DOMAIN label.text /\ name \in label.setOk
    THEN [raised |-> FALSE, label |-> [label EXCEPT !.text[name] = value]]
    ELSE [raised |-> TRUE, label |-> label]

(* What label.renderAsync() draws: the label's texts at the call *)
NoImage == [gen |-> 0, text |-> <<>>]

Image(label) == [gen |-> label.gen, text |-> label.text]

-----------------------------------------------------------------------------
(* parseObjectTypes *)

(* The loop that keeps the first tag recorded for a name *)
RECURSIVE TypesFrom_first(_, _, _)
TypesFrom_first(objects, i, types) ==
    IF i > Len(objects) THEN types
    ELSE LET node == objects[i]
         IN  IF endsWith(node.tagName, <<"O","b","j","e","c","t">>) /\ node.names # <<>>
                    /\ node.names[1] \notin DOMAIN types
             THEN TypesFrom_first(objects, i + 1,
                            [n \in DOMAIN types \cup {node.names[1]} |->
                                IF n = node.names[1] THEN node.tagName ELSE types[n]])
             ELSE TypesFrom_first(objects, i + 1, types)

RECURSIVE TypesFrom(_, _, _)
TypesFrom(objects, i, types) ==
    IF i > Len(objects) THEN types
    ELSE LET node == objects[i]
         IN  IF endsWith(node.tagName, <<"O","b","j","e","c","t">>) /\ node.names # <<>>
             THEN TypesFrom(objects, i + 1,
                            [n \in DOMAIN types \cup {node.names[1]} |->
                                IF n = node.names[1] THEN node.tagName ELSE types[n]])
             ELSE TypesFrom(objects, i + 1, types)

parseObjectTypes(xmlString) == TypesFrom(xmlString, 1, <<>>)

-----------------------------------------------------------------------------
(* generateForm *)

(* The filter without toUpperCase *)
IsIgnored_cased(name) == startsWith(name, <<"I","G","N","O","R","E">>)

IsIgnored(name) == startsWith(toUpperCase(name), <<"I","G","N","O","R","E">>)

RECURSIVE FilterEditable(_)
FilterEditable(names) ==
    IF names = <<>> THEN <<>>
    ELSE IF ~IsIgnored(Head(names)) THEN <<Head(names)>> \o FilterEditable(Tail(names))
    ELSE FilterEditable(Tail(names))

editableNames(names) == Sort(FilterEditable(names))

TypeOf(objectTypes, name) ==
    IF name \in DOMAIN objectTypes THEN objectTypes[name] ELSE <<"U","n","k","n","o","w","n">>

(* isImage that knows ImageObject only *)
IsImage_strict(objectTypes, name) == TypeOf(objectTypes, name) = tImage

IsImage(objectTypes, name) ==
    TypeOf(objectTypes, name) \in {tImage, <<"G","r","a","p","h","i","c","O","b","j","e","c","t">>}

(* One control of the form: a checkbox for an image, a textarea otherwise. *)
(* gen is the load that built it; dirty says a textarea was typed into     *)
(* since its last change event; since is the time since its last input     *)
(* event, up to Wait, and burst counts the input events that each followed *)
(* the one before within less than Wait.                                   *)
Control(st, name, gen) ==
    LET got == getObjectText(st.label, name)
        currentValue == IF got.raised THEN <<>> ELSE got.text
    IN  IF IsImage(st.objectTypes, name)
        THEN [name |-> name, type |-> "checkbox", value |-> <<>>,
              checked |-> Len(currentValue) > 0, gen |-> gen, dirty |-> FALSE, since |-> Wait,
              burst |-> 0]
        ELSE [name |-> name, type |-> "textarea",
              value |-> TextareaValue(escapeHtml(currentValue)),
              checked |-> FALSE, gen |-> gen, dirty |-> FALSE, since |-> Wait, burst |-> 0]

generateForm(st, names, gen) ==
    LET shown == editableNames(names)
    IN  [i \in 1..Len(shown) |-> Control(st, shown[i], gen)]

-----------------------------------------------------------------------------
(* The synchronisation pass of updatePreview and printLabels *)

InitialValue(initialValues, name) ==
    IF name \in DOMAIN initialValues THEN initialValues[name] ELSE <<>>

(* Written where an unchecked box writes nothing *)
Written_kept(input, initialValues) ==
    IF input.type = "checkbox"
    THEN IF input.checked /\ InitialValue(initialValues, input.name) # <<>>
         THEN <<InitialValue(initialValues, input.name)>>
         ELSE <<>>
    ELSE <<input.value>>

(* What one control writes: nothing for a checked box with no value to     *)
(* restore, otherwise a text.                                              *)
Written(input, initialValues) ==
    IF input.type = "checkbox"
    THEN IF input.checked
         THEN IF InitialValue(initialValues, input.name) # <<>>
              THEN <<InitialValue(initialValues, input.name)>>
              ELSE <<>>
         ELSE << <<>> >>
    ELSE <<input.value>>

(* A pass: the label it leaves, the inputs whose write raised, the writes  *)
(* it made, and whether an input built for another label was written.      *)
NoPass == [ran |-> FALSE, label |-> Null, raised |-> {}, writes |-> <<>>, stale |-> FALSE]

(* The pass without the try around each input: the first write that raises *)
(* ends it.                                                                *)
RECURSIVE SyncFrom_aborted(_, _, _, _)
SyncFrom_aborted(inputs, i, initialValues, pass) ==
    IF i > Len(inputs) THEN pass
    ELSE LET input == inputs[i]
             w == Written(input, initialValues)
             set == setObjectText(pass.label, input.name, w[1])
         IN  IF w = <<>> THEN SyncFrom_aborted(inputs, i + 1, initialValues, pass)
             ELSE IF set.raised THEN [pass EXCEPT !.raised = @ \cup {i}]
             ELSE SyncFrom_aborted(inputs, i + 1, initialValues,
                    [pass EXCEPT !.label = set.label,
                                 !.writes = Append(@, [input |-> i, name |-> input.name,
                                                       value |-> w[1]])])

RECURSIVE SyncFrom(_, _, _, _)
SyncFrom(inputs, i, initialValues, pass) ==
    IF i > Len(inputs) THEN pass
    ELSE LET input == inputs[i]
             w == Written(input, initialValues)
             set == setObjectText(pass.label, input.name, w[1])
         IN  IF w = <<>> THEN SyncFrom(inputs, i + 1, initialValues, pass)
             ELSE SyncFrom(inputs, i + 1, initialValues,
                    [ran |-> TRUE,
                     label |-> set.label,
                     raised |-> IF set.raised THEN pass.raised \cup {i} ELSE pass.raised,
                     writes |-> Append(pass.writes,
                                        [input |-> i, name |-> input.name, value |-> w[1]]),
                     stale |-> pass.stale \/ input.gen # pass.label.gen])

SyncPass(label, inputs, initialValues) ==
    SyncFrom(inputs, 1, initialValues, [NoPass EXCEPT !.ran = TRUE, !.label = label])

(* updatePreview that renders without the pass over the form *)
updatePreview_unsynced(st, inputs) ==
    IF st.label = Null
    THEN [st |-> st, requests |-> {}, pass |-> NoPass]
    ELSE [st |-> st, requests |-> {Image(st.label)},
          pass |-> [NoPass EXCEPT !.ran = TRUE, !.label = st.label]]

(* updatePreview that asks for the image before the pass *)
updatePreview_early(st, inputs) ==
    IF st.label = Null
    THEN [st |-> st, requests |-> {}, pass |-> NoPass]
    ELSE LET pass == SyncPass(st.label, inputs, st.initialValues)
         IN  [st |-> [st EXCEPT !.label = pass.label],
              requests |-> {Image(st.label)},
              pass |-> pass]

(* updatePreview up to its await: nothing without a label; otherwise the  *)
(* pass over the form's inputs, then the renderAsync call.                 *)
updatePreview(st, inputs) ==
    IF st.label = Null
    THEN [st |-> st, requests |-> {}, pass |-> NoPass]
    ELSE LET pass == SyncPass(st.label, inputs, st.initialValues)
         IN  [st |-> [st EXCEPT !.label = pass.label],
              requests |-> {Image(pass.label)},
              pass |-> pass]

-----------------------------------------------------------------------------
(* debounce and the timers *)

Slot(gen, i, event) == <<gen, i, event>>

RECURSIVE LastOf(_, _)
LastOf(ts, slot) ==
    IF ts = <<>> THEN 0
    ELSE IF ts[Len(ts)].slot = slot THEN Len(ts)
    ELSE LastOf(SubSeq(ts, 1, Len(ts) - 1), slot)

Without(s, k) == SubSeq(s, 1, k - 1) \o SubSeq(s, k + 1, Len(s))

clearTimeout(ts, slot) == IF LastOf(ts, slot) = 0 THEN ts ELSE Without(ts, LastOf(ts, slot))

(* debounce that sets a new timer and leaves the old one *)
debounce_uncleared(ts, slot) == Append(ts, [slot |-> slot, rem |-> Wait])

(* The function debounce returns, called for an event of one listener: the *)
(* timer it set last is cleared and a new one is set.                      *)
debounce(ts, slot) == Append(clearTimeout(ts, slot), [slot |-> slot, rem |-> Wait])

PendingFor(ts, slot) == {k \in 1..Len(ts) : ts[k].slot = slot}

-----------------------------------------------------------------------------
(* History *)

PassInfo(pass, before) ==
    [ran |-> pass.ran, raised |-> pass.raised, writes |-> pass.writes, stale |-> pass.stale,
     before |-> IF pass.ran THEN before.text ELSE <<>>]

NoLast == [op |-> "none", outcome |-> "", pass |-> PassInfo(NoPass, Null), called |-> "none",
           alert |-> "", quiet |-> 0, slot |-> Slot(0, 0, ""), input |-> <<>>]

Did(op, outcome) == [NoLast EXCEPT !.op = op, !.outcome = outcome]

Previewed(op, outcome, up, before) ==
    [NoLast EXCEPT !.op = op, !.outcome = outcome, !.pass = PassInfo(up.pass, before),
                   !.called = IF up.requests # {} THEN "render" ELSE "none"]

-----------------------------------------------------------------------------
(* Initial state: the script has run, DOMContentLoaded has not fired *)

Status(type, message) == [type |-> type, message |-> message]

Init ==
    /\ state = [label |-> Null, labelXml |-> <<>>, objectNames |-> <<>>,
                objectTypes |-> <<>>, initialValues |-> <<>>,
                isServiceRunning |-> FALSE, selectedPrinter |-> <<>>]
    /\ elements = [status |-> Status("", ""),
                   fileError |-> [shown |-> FALSE, text |-> ""],
                   formCard |-> FALSE, noFieldsMessage |-> FALSE,
                   previewCard |-> FALSE, printCard |-> FALSE,
                   labelForm |-> <<>>,
                   previewImage |-> [src |-> NoImage, alt |-> ""],
                   printerOptions |-> <<>>, printerSelect |-> <<>>,
                   labelFile |-> <<>>]
    /\ timers = <<>>
    /\ statusTimers = <<>>
    /\ reads = <<>>
    /\ renders = {}
    /\ initPc = "start"
    /\ hist = [events |-> 0, gen |-> 0, loaded |-> 0, captured |-> <<>>, file |-> NoFile]
    /\ last = NoLast

-----------------------------------------------------------------------------
(* init and loadPrinters *)

updateStatus(el, type, message) == [el EXCEPT !.status = Status(type, message)]

(* init up to its first await; without the framework script it ends in the *)
(* catch.                                                                  *)
InitStart(scriptLoaded) ==
    /\ initPc = "start"
    /\  IF scriptLoaded
        THEN /\ elements' = updateStatus(elements, "checking", "Initializing")
             /\ initPc' = "framework"
             /\ last' = Did("init", "started")
        ELSE /\ elements' = updateStatus(elements, "disconnected", "ServiceError")
             /\ initPc' = "done"
             /\ last' = Did("init", "failed")
    /\ UNCHANGED <<state, timers, statusTimers, reads, renders, hist>>

(* framework.init has called back: checkEnvironment *)
FrameworkReady(servicePresent) ==
    /\ initPc = "framework"
    /\  IF servicePresent
        THEN /\ state' = [state EXCEPT !.isServiceRunning = TRUE]
             /\ elements' = updateStatus(elements, "connected", "Connected")
             /\ initPc' = "printers"
             /\ last' = Did("init", "connected")
        ELSE /\ state' = [state EXCEPT !.isServiceRunning = FALSE]
             /\ elements' = updateStatus(elements, "disconnected", "ServiceError")
             /\ initPc' = "done"
             /\ last' = Did("init", "failed")
    /\ UNCHANGED <<timers, statusTimers, reads, renders, hist>>

pLabelWriter == [name |-> <<"L","W"," ","4","5","0">>, printerType |-> "LabelWriterPrinter"]
pWide == [name |-> <<"X","L">>, printerType |-> "LabelWriterPrinter"]
pTape == [name |-> <<"T","a","p","e">>, printerType |-> "TapePrinter"]
NoPrintersFound == <<"N","o"," ","D","Y","M","O">>

Listed(printers) == [raised |-> FALSE, printers |-> printers]

PrinterOutcomes == {Listed(<<>>), Listed(<<pTape, pLabelWriter>>), Listed(<<pWide>>),
                    [raised |-> TRUE, printers |-> <<>>]}

RECURSIVE LabelPrinters(_)
LabelPrinters(printers) ==
    IF printers = <<>> THEN <<>>
    ELSE IF Head(printers).printerType = "LabelWriterPrinter"
         THEN <<Head(printers)>> \o LabelPrinters(Tail(printers))
         ELSE LabelPrinters(Tail(printers))

AutoSelected(printer) ==
    includes(printer.name, <<"4","5","0">>)
        \/ includes(printer.name, <<"L","a","b","e","l","W","r","i","t","e","r">>)

(* The forEach of loadPrinters: [options, select value, state.selectedPrinter] *)
RECURSIVE AddPrinters(_, _)
AddPrinters(printers, acc) ==
    IF printers = <<>> THEN acc
    ELSE LET printer == Head(printers)
             pick == AutoSelected(printer) /\ acc.selectedPrinter = <<>>
         IN  AddPrinters(Tail(printers),
                [options |-> Append(acc.options, printer.name),
                 value |-> IF pick THEN printer.name ELSE acc.value,
                 selectedPrinter |-> IF pick THEN printer.name ELSE acc.selectedPrinter])

(* loadPrinters after its await *)
PrintersLoaded(got) ==
    /\ initPc = "printers"
    /\ IF ~got.raised
       THEN LET labelPrinters == LabelPrinters(got.printers)
                added == AddPrinters(labelPrinters,
                            [options |-> << <<>> >>, value |-> <<>>,
                             selectedPrinter |-> state.selectedPrinter])
            IN  IF Len(labelPrinters) = 0
                THEN /\ elements' = [elements EXCEPT !.printerOptions = << <<>>, NoPrintersFound >>,
                                                     !.printerSelect = <<>>]
                     /\ state' = state
                     /\ last' = Did("printers", "none")
                ELSE /\ elements' = [elements EXCEPT !.printerOptions = added.options,
                                                     !.printerSelect = added.value]
                     /\ state' = [state EXCEPT !.selectedPrinter = added.selectedPrinter]
                     /\ last' = Did("printers", "listed")
       ELSE /\ elements' = [elements EXCEPT !.printerOptions = << <<>> >>, !.printerSelect = <<>>]
            /\ state' = state
            /\ last' = Did("printers", "raised")
    /\ initPc' = "done"
    /\ UNCHANGED <<timers, statusTimers, reads, renders, hist>>

(* The change listener of the printer select *)
SelectPrinter(value) ==
    /\ initPc # "start"
    /\ hist.events < MaxEvents
    /\ value \in Range(elements.printerOptions)
    /\ value # elements.printerSelect
    /\ elements' = [elements EXCEPT !.printerSelect = value]
    /\ state' = [state EXCEPT !.selectedPrinter = value]
    /\ hist' = [hist EXCEPT !.events = @ + 1]
    /\ last' = Did("select", "")
    /\ UNCHANGED <<timers, statusTimers, reads, renders, initPc>>

-----------------------------------------------------------------------------
(* handleFileUpload and loadLabel *)

showFileError(el, message) == [el EXCEPT !.fileError = [shown |-> TRUE, text |-> message]]

hideFileError(el) == [el EXCEPT !.fileError.shown = FALSE]

IsLabelFile(fname) ==
    endsWith(toLowerCase(fname), <<".","l","a","b","e","l">>)
        \/ endsWith(toLowerCase(fname), <<".","d","y","m","o">>)

(* The change listener of the file input, up to reader.readAsText *)
handleFileUpload(f) ==
    /\ initPc # "start"
    /\ hist.events < MaxEvents
    /\ hist' = [hist EXCEPT !.events = @ + 1]
    /\ IF ~IsLabelFile(f.fname)
       THEN /\ elements' = showFileError([elements EXCEPT !.labelFile = f.fname], "InvalidType")
            /\ reads' = reads
            /\ last' = Did("upload", "rejected")
       ELSE /\ elements' = hideFileError([elements EXCEPT !.labelFile = f.fname])
            /\ reads' = Append(reads, f)
            /\ last' = Did("upload", "reading")
    /\ UNCHANGED <<state, timers, statusTimers, renders, initPc>>

(* reader.onerror *)
ReadFailed(k) ==
    /\ k \in 1..Len(reads)
    /\ reads' = Without(reads, k)
    /\ elements' = showFileError(elements, "ReadError")
    /\ last' = Did("load", "unreadable")
    /\ UNCHANGED <<state, timers, statusTimers, renders, initPc, hist>>

(* The snapshot loop with an entry for every name *)
Snapshot_all(label, names) ==
    [n \in Range(names) |->
        IF getObjectText(label, n).raised THEN <<>> ELSE getObjectText(label, n).text]

(* The snapshot loop of loadLabel: the names whose text could be read *)
Snapshot(label, names) ==
    [n \in {m \in Range(names) : ~getObjectText(label, m).raised} |->
        getObjectText(label, n).text]

(* loadLabel(xml) for the markup of file f, as the gen-th label: the state, *)
(* the elements and the render request it leaves, and how it ended.         *)
loadLabel(st, el, f, gen) ==
    IF f.openRaises
    THEN [st |-> st, el |-> showFileError(el, "ParseError"), requests |-> {},
          pass |-> NoPass, before |-> Null, outcome |-> "openRaised"]
    ELSE LET st1 == [st EXCEPT !.label = openLabelXml(f, gen), !.labelXml = <<f.xml>>]
         IN  IF f.namesRaises
             THEN [st |-> st1, el |-> showFileError(el, "ParseError"), requests |-> {},
                   pass |-> NoPass, before |-> Null, outcome |-> "namesRaised"]
             ELSE LET st2 == [st1 EXCEPT !.objectNames = f.names,
                                         !.objectTypes = parseObjectTypes(f.xml),
                                         !.initialValues = Snapshot(st1.label, f.names)]
                      el2 == IF Len(st2.objectNames) = 0
                             THEN [el EXCEPT !.noFieldsMessage = TRUE, !.formCard = FALSE,
                                             !.previewCard = TRUE, !.printCard = TRUE]
                             ELSE [el EXCEPT !.labelForm = generateForm(st2, st2.objectNames, gen),
                                             !.formCard = TRUE, !.noFieldsMessage = FALSE,
                                             !.printCard = TRUE]
                      up == updatePreview(st2, el2.labelForm)
                  IN  [st |-> up.st, el |-> el2, requests |-> up.requests,
                       pass |-> up.pass, before |-> st2.label, outcome |-> "loaded"]

(* reader.onload *)
ReadDone(k) ==
    /\ k \in 1..Len(reads)
    /\ \E done \in {loadLabel(state, elements, reads[k],
                                IF reads[k].openRaises THEN hist.gen ELSE hist.gen + 1)} :
           /\ state' = done.st
           /\ elements' = done.el
           /\ renders' = renders \cup done.requests
           /\ hist' = [hist EXCEPT
                        !.gen = IF reads[k].openRaises THEN @ ELSE @ + 1,
                        !.loaded = IF done.outcome = "loaded" THEN done.st.label.gen ELSE @,
                        !.captured = IF done.outcome = "loaded" THEN done.st.initialValues ELSE @,
                        !.file = IF done.outcome = "loaded" THEN reads[k] ELSE @]
           /\ last' = [NoLast EXCEPT !.op = "load", !.outcome = done.outcome,
                                     !.pass = PassInfo(done.pass, done.before),
                                     !.called = IF done.requests # {} THEN "render" ELSE "none"]
    /\ reads' = Without(reads, k)
    /\ UNCHANGED <<timers, statusTimers, initPc>>

-----------------------------------------------------------------------------
(* The listeners generateForm attaches (lines 292-295) *)

CanEdit(i) ==
    /\ elements.formCard
    /\ hist.events < MaxEvents
    /\ i \in 1..Len(elements.labelForm)

(* A keystroke in a textarea: its input event *)
TypeText(i, value) ==
    /\ CanEdit(i)
    /\ elements.labelForm[i].type = "textarea"
    /\ value # elements.labelForm[i].value
    /\ elements' = [elements EXCEPT !.labelForm[i].value = value,
                                    !.labelForm[i].dirty = TRUE,
                                    !.labelForm[i].burst =
                                        IF elements.labelForm[i].since < Wait THEN @ + 1 ELSE 1,
                                    !.labelForm[i].since = 0]
    /\ timers' = debounce(timers, Slot(elements.labelForm[i].gen, i, "input"))
    /\ hist' = [hist EXCEPT !.events = @ + 1]
    /\ last' = [Did("edit", "input") EXCEPT !.slot = Slot(elements.labelForm[i].gen, i, "input"),
                                              !.input = value]
    /\ UNCHANGED <<state, statusTimers, reads, renders, initPc>>

(* A textarea that was typed into loses the focus: its change event *)
ChangeText(i) ==
    /\ CanEdit(i)
    /\ elements.labelForm[i].type = "textarea"
    /\ elements.labelForm[i].dirty
    /\ elements' = [elements EXCEPT !.labelForm[i].dirty = FALSE]
    /\ timers' = debounce(timers, Slot(elements.labelForm[i].gen, i, "change"))
    /\ hist' = [hist EXCEPT !.events = @ + 1]
    /\ last' = [Did("edit", "change") EXCEPT !.slot = Slot(elements.labelForm[i].gen, i, "change")]
    /\ UNCHANGED <<state, statusTimers, reads, renders, initPc>>

(* A click on a checkbox: its input event, then its change event *)
Toggle(i) ==
    /\ CanEdit(i)
    /\ elements.labelForm[i].type = "checkbox"
    /\ elements' = [elements EXCEPT !.labelForm[i].checked = ~@,
                                    !.labelForm[i].burst =
                                        IF elements.labelForm[i].since < Wait THEN @ + 1 ELSE 1,
                                    !.labelForm[i].since = 0]
    /\ timers' = debounce(debounce(timers, Slot(elements.labelForm[i].gen, i, "input")),
                          Slot(elements.labelForm[i].gen, i, "change"))
    /\ hist' = [hist EXCEPT !.events = @ + 1]
    /\ last' = [Did("edit", "toggle") EXCEPT !.slot = Slot(elements.labelForm[i].gen, i, "input")]
    /\ UNCHANGED <<state, statusTimers, reads, renders, initPc>>

(* The time since the last input event of the control a timer belongs to;  *)
(* -1 when the form no longer holds that control.                          *)
QuietOf(slot) ==
    IF slot[2] \in 1..Len(elements.labelForm) /\ elements.labelForm[slot[2]].gen = slot[1]
    THEN elements.labelForm[slot[2]].since
    ELSE -1

(* A debounce timer runs out: updatePreview *)
TimerFire ==
    /\ timers # <<>>
    /\ Head(timers).rem = 0
    /\ \E up \in {updatePreview(state, elements.labelForm)} :
           /\ state' = up.st
           /\ renders' = renders \cup up.requests
           /\ last' = [Previewed("timer", Head(timers).slot[3], up, state.label) EXCEPT
                            !.slot = Head(timers).slot, !.quiet = QuietOf(Head(timers).slot)]
    /\ timers' = Tail(timers)
    /\ UNCHANGED <<elements, statusTimers, reads, initPc, hist>>

-----------------------------------------------------------------------------
(* Time *)

Rems == {timers[k].rem : k \in 1..Len(timers)} \cup Range(statusTimers)

Least(S) == CHOOSE x \in S : \A y \in S : x <= y

Less(a, b) == IF a < b THEN a ELSE b

AtLeast0(n) == IF n < 0 THEN 0 ELSE n

(* Time passes, by TickStep or up to the next timer's deadline, and never  *)
(* beyond a deadline.                                                      *)
Tick ==
    /\ Rems # {}
    /\ 0 \notin Rems
    /\ \E d \in {Less(TickStep, Least(Rems)), Least(Rems)} :
        /\ timers' = [k \in 1..Len(timers) |-> [timers[k] EXCEPT !.rem = AtLeast0(@ - d)]]
        /\ statusTimers' = [k \in 1..Len(statusTimers) |-> AtLeast0(statusTimers[k] - d)]
        /\ elements' = [elements EXCEPT !.labelForm =
                            [i \in 1..Len(elements.labelForm) |->
                                [elements.labelForm[i] EXCEPT !.since = Less(@ + d, Wait)]]]
    /\ last' = Did("tick", "")
    /\ UNCHANGED <<state, reads, renders, initPc, hist>>

-----------------------------------------------------------------------------
(* The preview button, the print button, the clear button *)

PreviewClick ==
    /\ initPc # "start"
    /\ hist.events < MaxEvents
    /\ \E up \in {updatePreview(state, elements.labelForm)} :
           /\ state' = up.st
           /\ renders' = renders \cup up.requests
           /\ last' = Previewed("preview", IF up.pass.ran THEN "rendering" ELSE "noLabel", up,
                                 state.label)
    /\ hist' = [hist EXCEPT !.events = @ + 1]
    /\ UNCHANGED <<elements, timers, statusTimers, reads, initPc>>

(* The await of updatePreview ends: the image, or the catch *)
RenderDone(image, rendered) ==
    /\ image \in renders
    /\ renders' = renders \ {image}
    /\ elements' = [elements EXCEPT
            !.previewImage = IF rendered THEN [src |-> image, alt |-> @.alt]
                             ELSE [src |-> NoImage, alt |-> "unavailable"],
            !.previewCard = TRUE]
    /\ last' = Did("rendered", IF rendered THEN "image" ELSE "unavailable")
    /\ UNCHANGED <<state, timers, statusTimers, reads, initPc, hist>>

(* The quantity check that lets 0 through *)
ValidQuantity_zero(quantity) == ~(quantity.isNaN \/ quantity.value < 0)

ValidQuantity(quantity) == ~(quantity.isNaN \/ quantity.value < 1)

(* Why printLabels returns before it does anything, or "" *)
Blocked(st, el, text) ==
    IF st.label = Null THEN "noLabel"
    ELSE IF el.printerSelect = <<>> THEN "noPrinter"
    ELSE IF ~ValidQuantity(parseInt(text)) THEN "badQuantity"
    ELSE ""

(* printLabels with `text` in the quantity input; label.print raises or not *)
printLabels(text, printRaises) ==
    IF Blocked(state, elements, text) # ""
    THEN /\ last' = [Did("print", "blocked") EXCEPT !.input = text,
                                                    !.alert = Blocked(state, elements, text)]
         /\ UNCHANGED <<state, elements, statusTimers>>
    ELSE \E pass \in {SyncPass(state.label, elements.labelForm, state.initialValues)} :
             /\ state' = [state EXCEPT !.label = pass.label]
             /\ last' = [Did("print", IF printRaises THEN "raised" ELSE "sent") EXCEPT
                            !.input = text, !.pass = PassInfo(pass, state.label),
                            !.called = "print",
                            !.alert = IF printRaises THEN "printError" ELSE ""]
             /\ IF printRaises
                THEN /\ elements' = updateStatus(updateStatus(elements, "checking", "Printing"),
                                                 "connected", "Connected")
                     /\ statusTimers' = statusTimers
                ELSE /\ elements' = updateStatus(updateStatus(elements, "checking", "Printing"),
                                                 "connected", "Sent")
                     /\ statusTimers' = Append(statusTimers, StatusWait)

PrintClick(text, printRaises) ==
    /\ initPc # "start"
    /\ hist.events < MaxEvents
    /\ printLabels(text, printRaises)
    /\ hist' = [hist EXCEPT !.events = @ + 1]
    /\ UNCHANGED <<timers, reads, renders, initPc>>

(* The timer of printLabels running out without touching the status *)
StatusTimerFire_kept ==
    /\ statusTimers # <<>>
    /\ Head(statusTimers) = 0
    /\ statusTimers' = Tail(statusTimers)
    /\ last' = Did("statusTimer", "")
    /\ UNCHANGED <<state, elements, timers, reads, renders, initPc, hist>>

(* The timer of printLabels runs out *)
StatusTimerFire ==
    /\ statusTimers # <<>>
    /\ Head(statusTimers) = 0
    /\ statusTimers' = Tail(statusTimers)
    /\ elements' = updateStatus(elements, "connected", "Connected")
    /\ last' = Did("statusTimer", "")
    /\ UNCHANGED <<state, timers, reads, renders, initPc, hist>>

clearForm ==
    /\ initPc # "start"
    /\ hist.events < MaxEvents
    /\ state' = [state EXCEPT !.label = Null, !.labelXml = <<>>, !.objectNames = <<>>]
    /\ elements' = hideFileError([elements EXCEPT
            !.labelFile = <<>>, !.formCard = FALSE, !.noFieldsMessage = FALSE,
            !.previewCard = FALSE, !.printCard = FALSE,
            !.previewImage = [src |-> NoImage, alt |-> @.alt]])
    /\ hist' = [hist EXCEPT !.events = @ + 1]
    /\ last' = Did("clear", "")
    /\ UNCHANGED <<timers, statusTimers, reads, renders, initPc>>

-----------------------------------------------------------------------------

Editing ==
    \/ \E i \in 1..MaxNames, value \in EditValues : TypeText(i, value)
    \/ \E i \in 1..MaxNames : ChangeText(i)
    \/ \E i \in 1..MaxNames : Toggle(i)

Timing == TimerFire \/ StatusTimerFire \/ Tick

(* An editing session: the service is found, the user waits for the        *)
(* printers to be listed, then loads labels, edits, previews, prints and   *)
(* clears; the renders stay in flight.                                     *)
Next ==
    \/ InitStart(TRUE)
    \/ FrameworkReady(TRUE)
    \/ PrintersLoaded(Listed(<<pTape, pLabelWriter>>))
    \/ (initPc = "done" /\ \E f \in Files : handleFileUpload(f))
    \/ \E k \in 1..MaxEvents : ReadDone(k)
    \/ (initPc = "done" /\ Editing)
    \/ (initPc = "done" /\ PreviewClick)
    \/ (initPc = "done" /\ \E printRaises \in BOOLEAN : PrintClick(<<"2">>, printRaises))
    \/ (initPc = "done" /\ clearForm)
    \/ Timing

Spec == Init /\ [][Next]_vars

(* generateForm on its own: one file with any list of names is loaded *)
NextForm ==
    \/ InitStart(TRUE)
    \/ (hist.events = 0 /\ \E f \in FormFiles : handleFileUpload(f))
    \/ \E k \in 1..MaxEvents : ReadDone(k)

SpecForm == Init /\ [][NextForm]_vars

ServiceFiles == {FLogoFixed, FNotLabel, FBadMarkup}

(* The page with every outcome of init and of loadPrinters, any printer    *)
(* selected, any quantity typed, and the user not waiting for init.        *)
NextService ==
    \/ \E scriptLoaded \in BOOLEAN : InitStart(scriptLoaded)
    \/ \E servicePresent \in BOOLEAN : FrameworkReady(servicePresent)
    \/ \E got \in PrinterOutcomes : PrintersLoaded(got)
    \/ \E value \in {<<>>, pLabelWriter.name, pWide.name, NoPrintersFound} : SelectPrinter(value)
    \/ \E f \in ServiceFiles : handleFileUpload(f)
    \/ \E k \in 1..MaxEvents : ReadDone(k)
    \/ \E k \in 1..MaxEvents : ReadFailed(k)
    \/ Editing
    \/ PreviewClick
    \/ \E text \in QuantityInputs, printRaises \in BOOLEAN : PrintClick(text, printRaises)
    \/ clearForm
    \/ Timing

SpecService == Init /\ [][NextService]_vars

(* The shapes of the controls: one file with any list of names and any of  *)
(* the markups is loaded                                                   *)
NextKinds ==
    \/ InitStart(TRUE)
    \/ (hist.events = 0 /\ \E f \in KindFiles : handleFileUpload(f))
    \/ \E k \in 1..MaxEvents : ReadDone(k)

SpecKinds == Init /\ [][NextKinds]_vars

(* parseObjectTypes on its own: one file with any of the markups is loaded *)
NextTypes ==
    \/ InitStart(TRUE)
    \/ (hist.events = 0 /\ \E f \in TypeFiles : handleFileUpload(f))
    \/ \E k \in 1..MaxEvents : ReadDone(k)

SpecTypes == Init /\ [][NextTypes]_vars

PreviewFiles == {FLogo, FAddress}

(* Previews: labels are loaded, edited, previewed and cleared, and the     *)
(* renders in flight end in any order, with an image or with an error.     *)
NextPreview ==
    \/ InitStart(TRUE)
    \/ FrameworkReady(TRUE)
    \/ PrintersLoaded(Listed(<<pTape, pLabelWriter>>))
    \/ (initPc = "done" /\ \E f \in PreviewFiles : handleFileUpload(f))
    \/ \E k \in 1..MaxEvents : ReadDone(k)
    \/ (initPc = "done" /\ Editing)
    \/ (initPc = "done" /\ PreviewClick)
    \/ (initPc = "done" /\ clearForm)
    \/ \E image \in renders, rendered \in BOOLEAN : RenderDone(image, rendered)
    \/ TimerFire
    \/ Tick

SpecPreview == Init /\ [][NextPreview]_vars

(* The opening of a label on its own: one of the labels is loaded *)
NextOpen ==
    \/ InitStart(TRUE)
    \/ (hist.events = 0 /\ \E f \in OpenFiles : handleFileUpload(f))
    \/ \E k \in 1..MaxEvents : ReadDone(k)

SpecOpen == Init /\ [][NextOpen]_vars

(* Printing: a label is loaded and print jobs are sent, some of them while  *)
(* the status timer of an earlier one is pending; time does not stop while *)
(* a timer is pending.                                                     *)
NextPrint ==
    \/ InitStart(TRUE)
    \/ FrameworkReady(TRUE)
    \/ PrintersLoaded(Listed(<<pTape, pLabelWriter>>))
    \/ handleFileUpload(FLogoFixed)
    \/ \E k \in 1..MaxEvents : ReadDone(k)
    \/ \E printRaises \in BOOLEAN : PrintClick(<<"2">>, printRaises)
    \/ StatusTimerFire
    \/ Tick

SpecPrint == Init /\ [][NextPrint]_vars /\ WF_vars(StatusTimerFire \/ Tick)

-----------------------------------------------------------------------------
(* What the claims speak of *)

form == elements.labelForm

(* The document holds value v for the field *)
FieldIs(name, v) == name \in DOMAIN state.label.text /\ state.label.text[name] = v

(* The name begins, in any casing, with "IGNORE" *)
IgnorePrefixed(name) ==
    /\ Len(name) >= 6
    /\ \A k \in 1..6 : name[k] \in {<<"i","g","n","o","r","e">>[k], <<"I","G","N","O","R","E">>[k]}

(* The document shows the state of control c: a textarea's text, nothing   *)
(* for an unchecked box, the snapshot for a checked box that has one.      *)
Reflects(c) ==
    IF c.type = "textarea" THEN FieldIs(c.name, c.value)
    ELSE IF ~c.checked THEN FieldIs(c.name, <<>>)
    ELSE InitialValue(state.initialValues, c.name) # <<>>
            => FieldIs(c.name, InitialValue(state.initialValues, c.name))

(* No later control of the form is bound to the same name *)
LastBound(i) == \A j \in (i + 1)..Len(form) : form[j].name # form[i].name

OnlyBound(i) == \A j \in 1..Len(form) : j # i => form[j].name # form[i].name

Called == last.called \in {"render", "print"}

(* C1 as claimed: at the render or print call every bound control's state  *)
(* is in the document: each text field equals its control's text, each     *)
(* toggle field reflects the checked state (stated for the controls built  *)
(* for the label in hand).                                                 *)
C1_Claim ==
    Called => \A i \in 1..Len(form) : form[i].gen = state.label.gen => Reflects(form[i])

(* C1 as amended: at the render or print call the pass has just run over   *)
(* every bound control, and the document shows each control whose write    *)
(* the framework accepted (the last one bound to its name); a write that   *)
(* raised leaves the field as it was.                                      *)
C1_Synced ==
    Called =>
        /\ last.pass.ran
        /\ \A i \in 1..Len(form) :
            /\ (i \notin last.pass.raised /\ LastBound(i)) => Reflects(form[i])
            /\ (i \in last.pass.raised /\ OnlyBound(i) /\ form[i].name \in DOMAIN state.label.text)
                    => state.label.text[form[i].name] = last.pass.before[form[i].name]

(* A preview or print right after an edit whose debounce timer is pending  *)
C1_Witness ==
    /\ last.op \in {"preview", "print"}
    /\ Called
    /\ \E i \in 1..Len(form) :
        /\ form[i].type = "textarea"
        /\ form[i].since < Wait
        /\ PendingFor(timers, Slot(form[i].gen, i, "input")) # {}
        /\ form[i].value # <<>>
        /\ FieldIs(form[i].name, form[i].value)
        /\ last.pass.before[form[i].name] # form[i].value

(* C2 as claimed: once a second label has been loaded in full, the form    *)
(* holds no control built for an earlier label and no pass writes from     *)
(* such a control, also when the new label reports no field names.         *)
C2_Claim ==
    (state.label # Null /\ state.label.gen = hist.loaded /\ hist.loaded >= 2) =>
        /\ \A i \in 1..Len(form) : form[i].gen = state.label.gen
        /\ ~last.pass.stale

(* C3 as claimed: after clearForm the handle, the markup, the names, the   *)
(* kinds, the snapshots and the controls are all empty.                    *)
C3_Claim ==
    last.op = "clear" =>
        /\ state.label = Null
        /\ state.labelXml = <<>>
        /\ state.objectNames = <<>>
        /\ DOMAIN state.objectTypes = {}
        /\ DOMAIN state.initialValues = {}
        /\ form = <<>>

(* The timer of an input listener has just run out, the form still holds   *)
(* its textarea and the pass ran                                           *)
InputTimerRan ==
    /\ last.op = "timer"
    /\ last.outcome = "input"
    /\ last.quiet >= 0
    /\ last.pass.ran
    /\ form[last.slot[2]].type = "textarea"

(* C4 as claimed: the one pass that follows two edits of a textarea less   *)
(* than Wait apart runs after Wait of quiet and leaves the later text in   *)
(* the document.                                                           *)
C4_Claim ==
    (InputTimerRan /\ form[last.slot[2]].burst >= 2
            /\ form[last.slot[2]].gen = state.label.gen) =>
        /\ last.quiet >= Wait
        /\ PendingFor(timers, last.slot) = {}
        /\ FieldIs(form[last.slot[2]].name, form[last.slot[2]].value)

(* C4 as amended: input events of one textarea less than Wait apart leave  *)
(* exactly one timer of its input listener pending, due Wait after the     *)
(* latest one; when it runs out, no sooner than Wait after the latest one, *)
(* no timer of that listener is left, the pass hands the latest text to    *)
(* setObjectText, and the document holds it if that write was accepted.    *)
C4_Debounced ==
    /\ \A i \in 1..Len(form) :
        (form[i].type = "textarea" /\ form[i].since < Wait) =>
            /\ Cardinality(PendingFor(timers, Slot(form[i].gen, i, "input"))) = 1
            /\ \A k \in PendingFor(timers, Slot(form[i].gen, i, "input")) :
                    timers[k].rem = Wait - form[i].since
    /\ (last.op = "timer" /\ last.outcome = "input" /\ last.quiet >= 0
            /\ form[last.slot[2]].type = "textarea") =>
            /\ last.quiet >= Wait
            /\ PendingFor(timers, last.slot) = {}
    /\ InputTimerRan =>
            /\ \E k \in 1..Len(last.pass.writes) :
                    last.pass.writes[k] = [input |-> last.slot[2],
                                           name |-> form[last.slot[2]].name,
                                           value |-> form[last.slot[2]].value]
            /\ (last.slot[2] \notin last.pass.raised /\ LastBound(last.slot[2]))
                    => FieldIs(form[last.slot[2]].name, form[last.slot[2]].value)

(* The timer of a burst of two edits has run out and the later text is in  *)
(* the document                                                            *)
C4_Witness ==
    /\ last.op = "timer"
    /\ last.outcome = "input"
    /\ last.quiet >= Wait
    /\ last.pass.ran
    /\ form[last.slot[2]].type = "textarea"
    /\ form[last.slot[2]].burst = 2
    /\ form[last.slot[2]].value = vY
    /\ FieldIs(form[last.slot[2]].name, vY)
    /\ last.pass.before[form[last.slot[2]].name] = <<>>

(* The value the load captured for the field, "" when it captured none *)
Captured(name) == InitialValue(hist.captured, name)

(* C5 as claimed: after a pass an unchecked image field is empty and a     *)
(* checked one with a snapshot holds the snapshot (stated for the controls *)
(* built for the label in hand).                                           *)
C5_Claim ==
    last.pass.ran =>
        \A i \in 1..Len(form) :
            (form[i].type = "checkbox" /\ form[i].gen = state.label.gen) =>
                /\ ~form[i].checked => FieldIs(form[i].name, <<>>)
                /\ (form[i].checked /\ Captured(form[i].name) # <<>>)
                        => FieldIs(form[i].name, Captured(form[i].name))

(* C5 as amended: the snapshots are those captured by the last full load;  *)
(* after a pass, an image field whose write was accepted is empty if its   *)
(* box is unchecked and holds the snapshot if its box is checked and the   *)
(* snapshot is not empty; with an empty snapshot, or a write that raised,  *)
(* the field is as it was before the pass.                                 *)
C5_Toggled ==
    /\ state.initialValues = hist.captured
    /\ (state.label # Null /\ state.label.gen = hist.loaded) =>
            \A n \in DOMAIN hist.captured : hist.captured[n] = state.label.opened[n]
    /\ last.pass.ran =>
        \A i \in 1..Len(form) :
            (form[i].type = "checkbox" /\ OnlyBound(i)) =>
                /\ (~form[i].checked /\ i \notin last.pass.raised)
                        => FieldIs(form[i].name, <<>>)
                /\ (form[i].checked /\ Captured(form[i].name) # <<>> /\ i \notin last.pass.raised)
                        => FieldIs(form[i].name, Captured(form[i].name))
                /\ ((form[i].checked /\ Captured(form[i].name) = <<>>) \/ i \in last.pass.raised)
                        => \/ form[i].name \notin DOMAIN state.label.text
                           \/ state.label.text[form[i].name] = last.pass.before[form[i].name]

(* A box that was unchecked and synchronised is checked again, and the     *)
(* pass puts the value captured at load back                               *)
C5_Witness ==
    /\ last.pass.ran
    /\ \E i \in 1..Len(form) :
        /\ form[i].type = "checkbox"
        /\ form[i].checked
        /\ i \notin last.pass.raised
        /\ Captured(form[i].name) = vOrig
        /\ last.pass.before[form[i].name] = <<>>
        /\ FieldIs(form[i].name, vOrig)

(* C7: a field whose name begins with "IGNORE" in any casing stays in the  *)
(* name list of the loaded label, has no control, and holds the value it   *)
(* had when the label was opened.                                          *)
C7_Untouched ==
    /\ \A i \in 1..Len(form) : ~IgnorePrefixed(form[i].name)
    /\ state.label # Null =>
        \A n \in DOMAIN state.label.text :
            IgnorePrefixed(n) =>
                /\ state.label.text[n] = state.label.opened[n]
                /\ state.label.gen = hist.loaded => n \in Range(state.objectNames)

(* A pass has written an edit into a label that has an ignored field *)
C7_Witness ==
    /\ last.op \in {"timer", "preview", "print"}
    /\ last.pass.ran
    /\ nIgnoreId \in Range(state.objectNames)
    /\ FieldIs(nIgnoreId, vX)
    /\ \E i \in 1..Len(form) :
        /\ FieldIs(form[i].name, vY)
        /\ last.pass.before[form[i].name] # vY

(* C9: when a write raises in a pass, every other control that has a value *)
(* to write is still handed to setObjectText, the document shows each      *)
(* control whose write was accepted, and the render or print call follows. *)
C9_Confined ==
    (last.pass.ran /\ last.pass.raised # {}) =>
        /\ \A i \in 1..Len(form) :
            /\ Written(form[i], state.initialValues) # <<>>
                    => \E k \in 1..Len(last.pass.writes) :
                            last.pass.writes[k] = [input |-> i, name |-> form[i].name,
                                                   value |-> Written(form[i], state.initialValues)[1]]
            /\ (i \notin last.pass.raised /\ LastBound(i)) => Reflects(form[i])
        /\ Called

(* The write of the first control raised and the edit of the second one is *)
(* in the document at the call                                             *)
C9_Witness ==
    /\ last.op \in {"preview", "print"}
    /\ Called
    /\ last.pass.raised = {1}
    /\ Len(form) >= 2
    /\ 2 \notin last.pass.raised
    /\ form[2].value # <<>>
    /\ FieldIs(form[2].name, form[2].value)
    /\ last.pass.before[form[2].name] # form[2].value

(* This step is a load that failed: a file rejected for its name, or       *)
(* loadLabel ending in its catch                                           *)
FailedLoadStep ==
    \/ (hist'.events # hist.events /\ last'.op = "upload" /\ last'.outcome = "rejected")
    \/ (reads' # reads /\ last'.op = "load" /\ last'.outcome \in {"openRaised", "namesRaised"})

(* C10 as claimed: a failed load leaves the handle, the markup, the names, *)
(* the kinds, the snapshots and the form as they were.                     *)
C10_Claim ==
    [][FailedLoadStep =>
        /\ state'.label = state.label
        /\ state'.labelXml = state.labelXml
        /\ state'.objectNames = state.objectNames
        /\ state'.objectTypes = state.objectTypes
        /\ state'.initialValues = state.initialValues
        /\ form' = form]_vars

(* How many controls of the form are bound to the name *)
Controls(name) == Cardinality({i \in 1..Len(form) : form[i].name = name})

(* How many times the name is in the list *)
Occurrences(names, name) == Cardinality({i \in 1..Len(names) : names[i] = name})

Ascending == \A i \in 1..Len(form) : \A j \in (i + 1)..Len(form) :
                localeCompare(form[i].name, form[j].name) <= 0

FormBuilt == last.op = "load" /\ last.outcome = "loaded" /\ state.objectNames # <<>>

(* C6 as claimed: the form built from a list of names has exactly one      *)
(* control for each name of the list that does not begin with "IGNORE" in  *)
(* any casing, none for the others, in ascending order.                    *)
C6_Claim ==
    FormBuilt =>
        /\ \A n \in NameUniverse :
            Controls(n) = IF n \in Range(state.objectNames) /\ ~IgnorePrefixed(n) THEN 1 ELSE 0
        /\ Ascending

(* C6 as amended: the form has one control for each occurrence in the list *)
(* of a name that does not begin with "IGNORE" in any casing (exactly one  *)
(* when the list names it once), none for the others, in ascending order.  *)
C6_Form ==
    FormBuilt =>
        /\ \A n \in NameUniverse :
            Controls(n) = IF IgnorePrefixed(n) THEN 0 ELSE Occurrences(state.objectNames, n)
        /\ \A i \in 1..Len(form) : form[i].name \in NameUniverse
        /\ Ascending

(* The form built from "Name", "ignoreId", "Address" *)
C6_Witness ==
    /\ FormBuilt
    /\ state.objectNames = <<nName, nIgnoreId, nAddress>>
    /\ [i \in 1..Len(form) |-> form[i].name] = <<nAddress, nName>>

(* The quantity inputs that parse to an integer of at least 1 *)
PositiveInputs == {<<"2">>, <<"3","x">>}

(* C8: a click on the print button calls print only with a label loaded, a *)
(* printer selected and a quantity that parses to an integer of at least   *)
(* 1; otherwise the user is alerted, print is not called, no pass runs and *)
(* nothing of the page or of the state changes.                            *)
C8_Guarded ==
    [][(last'.op = "print" /\ hist'.events = hist.events + 1) =>
        /\ last'.called = "print"
                <=> (state.label # Null /\ elements.printerSelect # <<>>
                        /\ last'.input \in PositiveInputs)
        /\ last'.called # "print" =>
                /\ last'.alert \in {"noLabel", "noPrinter", "badQuantity"}
                /\ ~last'.pass.ran
                /\ UNCHANGED <<state, elements, timers, statusTimers, reads, renders, initPc>>]_vars

(* A print with quantity "0" was blocked while an edit was still not in    *)
(* the document                                                            *)
C8_Witness ==
    /\ last.op = "print"
    /\ last.outcome = "blocked"
    /\ last.alert = "badQuantity"
    /\ last.input = <<"0">>
    /\ last.called = "none"
    /\ \E i \in 1..Len(form) :
        /\ form[i].type = "textarea"
        /\ form[i].gen = state.label.gen
        /\ ~Reflects(form[i])

Connected == Status("connected", "Connected")

(* C11: every print that passed validation, whether label.print returned   *)
(* or raised, leads to the status being "connected" with the message of    *)
(* the connected service, and no state shows the "checking" status of      *)
(* printLabels, however many print jobs overlap.                           *)
C11_Restored ==
    /\ (last.op = "print" /\ last.called = "print") ~> (elements.status = Connected)
    /\ [](elements.status # Status("checking", "Printing"))

(* The status timer of one print job has run out while that of a later job *)
(* is pending, and the status is that of the connected service             *)
C11_Witness ==
    /\ last.op = "statusTimer"
    /\ statusTimers # <<>>
    /\ elements.status = Connected

(* The extractor recorded an image-like kind for the name *)
ImageLike(name) ==
    name \in DOMAIN state.objectTypes /\ state.objectTypes[name] \in {tImage, tGraphic}

Shaped ==
    \A i \in 1..Len(form) :
        form[i].type = IF ImageLike(form[i].name) THEN "checkbox" ELSE "textarea"

ExtractorOnly ==
    \A n \in DOMAIN state.objectTypes : n \notin Range(state.objectNames) => Controls(n) = 0

(* C12 as claimed: each reported name that is not excluded has exactly one *)
(* control, a checkbox if its kind is ImageObject or GraphicObject and a   *)
(* textarea otherwise, also without a kind; a name only the extractor      *)
(* found has none.                                                         *)
C12_Claim ==
    FormBuilt =>
        /\ \A n \in Range(state.objectNames) : ~IgnorePrefixed(n) => Controls(n) = 1
        /\ Shaped
        /\ ExtractorOnly

(* C12 as amended: each reported name that is not excluded has one control *)
(* for each time it is reported (exactly one when reported once), every    *)
(* control is a checkbox if its name's kind is ImageObject or              *)
(* GraphicObject and a textarea otherwise, also without a kind; a name     *)
(* only the extractor found has none.                                      *)
C12_Shapes ==
    FormBuilt =>
        /\ \A n \in Range(state.objectNames) :
                ~IgnorePrefixed(n) => Controls(n) = Occurrences(state.objectNames, n)
        /\ \A i \in 1..Len(form) : form[i].name \in Range(state.objectNames)
        /\ Shaped
        /\ ExtractorOnly

(* A form with a checkbox for a GraphicObject and a textarea for a name    *)
(* without a kind, built from a markup that names one more object          *)
C12_Witness ==
    /\ FormBuilt
    /\ nAddress \in DOMAIN state.objectTypes
    /\ Controls(nAddress) = 0
    /\ \E i, j \in 1..Len(form) :
        /\ form[i].type = "checkbox"
        /\ state.objectTypes[form[i].name] = tGraphic
        /\ form[j].type = "textarea"
        /\ form[j].name \notin DOMAIN state.objectTypes

(* C13 as claimed: at most one debounce timer is pending at any moment.    *)
C13_Claim == Len(timers) <= 1

(* The markup has an element whose tag ends with "Object" and whose first  *)
(* Name is the name                                                        *)
Declared(xml, name) ==
    \E i \in 1..Len(xml) :
        /\ Len(xml[i].tagName) >= 6
        /\ SubSeq(xml[i].tagName, Len(xml[i].tagName) - 5, Len(xml[i].tagName))
                = <<"O","b","j","e","c","t">>
        /\ xml[i].names # <<>>
        /\ xml[i].names[1] = name

(* C14 as claimed: with a label loaded, every name of the list has a kind  *)
(* and a snapshot.                                                         *)
C14_Claim ==
    state.label # Null =>
        \A n \in Range(state.objectNames) :
            n \in DOMAIN state.objectTypes /\ n \in DOMAIN state.initialValues

(* C14 as amended: with a label loaded, a name of the list has a kind      *)
(* exactly when the markup it was loaded from declares an object of that   *)
(* name, and a snapshot exactly when its text could be read at load time;  *)
(* no other name has a snapshot.                                           *)
C14_Entries ==
    state.label # Null =>
        /\ \A n \in Range(state.objectNames) :
            /\ n \in DOMAIN state.objectTypes <=> Declared(hist.file.xml, n)
            /\ n \in DOMAIN state.initialValues <=> n \notin hist.file.getFail
        /\ \A n \in DOMAIN state.initialValues : n \in Range(hist.file.names)

(* After an edit was synchronised, a name of the list has neither kind nor *)
(* snapshot while another has both                                         *)
C14_Witness ==
    /\ last.op = "timer"
    /\ last.pass.ran
    /\ state.label # Null
    /\ \E n, m \in Range(state.objectNames) :
        /\ n \notin DOMAIN state.objectTypes
        /\ n \notin DOMAIN state.initialValues
        /\ m \in DOMAIN state.objectTypes
        /\ m \in DOMAIN state.initialValues

(* This step is a click on the preview button *)
PreviewStep == hist'.events = hist.events + 1 /\ last'.op = "preview"

(* C15 as claimed: a preview with no debounce timer pending, or right      *)
(* after another preview, changes no text of the label.                    *)
C15_Claim ==
    [][(PreviewStep /\ (timers = <<>> \/ last.op = "preview"))
            => state'.label.text = state.label.text]_vars

(* Element i of the markup has a tag ending with "Object" and the name as  *)
(* its first Name                                                          *)
Declares(xml, i, name) ==
    /\ Len(xml[i].tagName) >= 6
    /\ SubSeq(xml[i].tagName, Len(xml[i].tagName) - 5, Len(xml[i].tagName))
            = <<"O","b","j","e","c","t">>
    /\ xml[i].names # <<>>
    /\ xml[i].names[1] = name

LastDeclaring(xml, name) ==
    CHOOSE i \in 1..Len(xml) :
        Declares(xml, i, name) /\ \A j \in (i + 1)..Len(xml) : ~Declares(xml, j, name)

(* The mapping of the claim for the markup *)
TypesOf(xml) ==
    [n \in {m \in {nName, nLogo} : \E i \in 1..Len(xml) : Declares(xml, i, m)} |->
        xml[LastDeclaring(xml, n)].tagName]

ParseFailed(xml) == \E i \in 1..Len(xml) : xml[i].tagName = tParserError

Loaded == last.op = "load" /\ last.outcome = "loaded"

(* C16 as claimed: the mapping is that of the elements whose tag ends with *)
(* "Object" and that have a Name, the first Name mapped to the tag and a   *)
(* later element overwriting an earlier one; it is empty for a markup that *)
(* failed to parse.                                                        *)
C16_Claim ==
    Loaded =>
        /\ state.objectTypes = TypesOf(hist.file.xml)
        /\ ParseFailed(hist.file.xml) => DOMAIN state.objectTypes = {}

(* C16 as amended: the mapping is that of the elements of the document the *)
(* parser returned whose tag ends with "Object" and that have a Name, the  *)
(* first Name mapped to the tag and a later element overwriting an earlier *)
(* one, whether or not the parse failed; it is empty when there is no such *)
(* element.                                                                *)
C16_Types ==
    Loaded =>
        /\ state.objectTypes = TypesOf(hist.file.xml)
        /\ (\A i \in 1..Len(hist.file.xml) : \A n \in {nName, nLogo} : ~Declares(hist.file.xml, i, n))
                => DOMAIN state.objectTypes = {}

(* A markup in which a later element declares the name of an earlier one   *)
(* with another tag, and an element has two Names                          *)
C16_Witness ==
    /\ Loaded
    /\ Len(hist.file.xml) = 3
    /\ hist.file.xml[1] = Element(tText, <<nName>>)
    /\ hist.file.xml[2] = Element(tImage, <<nName>>)
    /\ hist.file.xml[3] = Element(tText, <<nLogo, nName>>)
    /\ state.objectTypes = (nName :> tImage) @@ (nLogo :> tText)

shown == elements.previewImage.src

(* Nothing is under way: no render in flight, no debounce timer pending *)
Settled == renders = {} /\ timers = <<>>

(* C17 as claimed: once a render has ended with an image and nothing is    *)
(* under way, the image shown is that of the label's current texts.        *)
C17_Claim ==
    (last.op = "rendered" /\ last.outcome = "image" /\ Settled /\ state.label # Null)
        => shown = Image(state.label)

(* C17 as amended: a render is asked for the label as the pass has just    *)
(* left it, and a render that ends puts its own image in the preview,      *)
(* or none if it failed, whatever other renders ended before it; the       *)
(* label is not touched.                                                   *)
C17_LastWins ==
    [][/\ renders' # renders /\ renders \subseteq renders'
            => renders' = renders \cup {Image(state'.label)}
       /\ last'.op = "rendered" /\ renders' # renders
            => /\ \E image \in renders :
                    /\ renders' = renders \ {image}
                    /\ shown' = IF last'.outcome = "image" THEN image ELSE NoImage
               /\ elements'.previewCard
               /\ state' = state]_vars

(* The render asked for before an edit ended after the one asked for after *)
(* it: nothing is under way and the image shown is not that of the label   *)
C17_Witness ==
    /\ last.op = "rendered"
    /\ last.outcome = "image"
    /\ Settled
    /\ state.label # Null
    /\ shown.gen = state.label.gen
    /\ shown # Image(state.label)

(* C18 as claimed: with no label the preview card is hidden and shows no   *)
(* image, and with a label it shows no image of another label.             *)
C18_Claim ==
    /\ state.label = Null => (~elements.previewCard /\ shown = NoImage)
    /\ (state.label # Null /\ shown # NoImage) => shown.gen = state.label.gen

(* C19 as claimed: after the pass of loadLabel every object of the label   *)
(* holds the text it held when the label was opened.                       *)
C19_Claim == Loaded => state.label.text = state.label.opened

====
